---- MODULE Spec2Model ----
(***************************************************************************)
(* Matrix<T> of src/src/lib.rs, instantiated at T = i8: construction,      *)
(* transposition, is_identity, Display, FromStr, Index/IndexMut and the    *)
(* arithmetic operators.  Strings are sequences of characters; a character *)
(* is a one-symbol string and carries its UTF-8 width.                     *)
(***************************************************************************)
EXTENDS Integers, Sequences, FiniteSets, TLC

\* ------------------------------------------------------------------ bounds
\* largest row / col count handed to Matrix::new
MaxDim == 2
\* longest values slice handed to Matrix::new
MaxLen == 4
\* longest input string handed to from_str
MaxStrLen == 5
\* largest row / column index used with Index and IndexMut
MaxIdx == 2

\* -------------------------------------------------------- element type i8
Bits == 8
MinT == -(2 ^ (Bits - 1))
MaxT == 2 ^ (Bits - 1) - 1
\* element values handed to Matrix::new and used as scalars
Vals == {0, 1, MinT}

\* overflow_checks: whether the build checks primitive arithmetic for overflow
\*                  (on in the dev and test profiles, off in release)
\* x:               the matrix the caller holds, NoMatrix before the first call
\* last:            the last call, its receiver, its argument and its outcome
VARIABLES overflow_checks, x, last
\* last.op leads: two calls are compared by kind before their arguments and
\* outcomes, whose types differ from one kind of call to another
vars == <<last.op, overflow_checks, x, last>>

\* --------------------------------------------------------------- outcomes
Ok(v) == [tag |-> "Ok", val |-> v]
Err(e) == [tag |-> "Err", err |-> e]
Panic == [tag |-> "Panic"]
IsOk(r) == r.tag = "Ok"

NoMatrix == [data |-> <<>>, row |-> -1, col |-> -1]
Matrix(d, r, c) == [data |-> d, row |-> r, col |-> c]

\* two's-complement wrap of an integer into the range of T
Wrap(n) == ((n - MinT) % (2 ^ Bits)) + MinT
\* result of a primitive +, -, * or unary - whose exact value is n:
\* a panic when the build checks overflow, the wrapped value otherwise
Arith(n) == IF n < MinT \/ n > MaxT
            THEN (IF overflow_checks THEN Panic ELSE Ok(Wrap(n)))
            ELSE Ok(n)

\* ------------------------------------------------------------- characters
\* a character whose UTF-8 encoding takes two bytes
NonAscii == "U+00E9"
WhiteSpace == {" "}
Digits == <<"0", "1", "2", "3", "4", "5", "6", "7", "8", "9">>
IsDigit(c) == \E d \in 1..10 : Digits[d] = c
DigitVal(c) == (CHOOSE d \in 1..10 : Digits[d] = c) - 1
Utf8Len(c) == IF c = NonAscii THEN 2 ELSE 1

RECURSIVE ByteLen(_)
ByteLen(s) == IF s = <<>> THEN 0 ELSE Utf8Len(Head(s)) + ByteLen(Tail(s))

\* str::is_char_boundary
IsCharBoundary(s, n) == \E k \in 0..Len(s) : ByteLen(SubSeq(s, 1, k)) = n

\* &s[a..b] with byte offsets; callers check the boundaries first
Slice(s, a, b) ==
    LET ka == CHOOSE k \in 0..Len(s) : ByteLen(SubSeq(s, 1, k)) = a
        kb == CHOOSE k \in 0..Len(s) : ByteLen(SubSeq(s, 1, k)) = b
    IN SubSeq(s, ka + 1, kb)

RECURSIVE TrimStart(_)
TrimStart(s) == IF s # <<>> /\ Head(s) \in WhiteSpace THEN TrimStart(Tail(s)) ELSE s

RECURSIVE TrimEnd(_)
TrimEnd(s) == IF s # <<>> /\ s[Len(s)] \in WhiteSpace
              THEN TrimEnd(SubSeq(s, 1, Len(s) - 1)) ELSE s

\* str::trim
Trim(s) == TrimEnd(TrimStart(s))

\* str::split(sep).collect(): the pieces between separators, empty ones kept
RECURSIVE SplitFrom(_, _, _)
SplitFrom(s, sep, cur) ==
    IF s = <<>> THEN <<cur>>
    ELSE IF Head(s) = sep THEN <<cur>> \o SplitFrom(Tail(s), sep, <<>>)
    ELSE SplitFrom(Tail(s), sep, Append(cur, Head(s)))

Split(s, sep) == SplitFrom(s, sep, <<>>)

\* ------------------------------------------------- <i8 as FromStr>::from_str
\* digit accumulation with checked arithmetic; sign is 1 or -1
RECURSIVE ParseDigits(_, _, _)
ParseDigits(s, sign, acc) ==
    IF s = <<>> THEN Ok(acc)
    ELSE IF ~IsDigit(Head(s)) THEN Err("InvalidDigit")
    ELSE LET n == acc * 10 + sign * DigitVal(Head(s))
         IN IF n < MinT \/ n > MaxT THEN Err("Overflow")
            ELSE ParseDigits(Tail(s), sign, n)

ParseT(s) ==
    IF s = <<>> THEN Err("Empty")
    ELSE IF Len(s) = 1 /\ Head(s) \in {"+", "-"} THEN Err("InvalidDigit")
    ELSE IF Head(s) = "+" THEN ParseDigits(Tail(s), 1, 0)
    ELSE IF Head(s) = "-" THEN ParseDigits(Tail(s), -1, 0)
    ELSE ParseDigits(s, 1, 0)

\* ------------------------------------------------- <i8 as Display>::fmt
RECURSIVE FmtNat(_)
FmtNat(n) == IF n < 10 THEN <<Digits[n + 1]>>
             ELSE Append(FmtNat(n \div 10), Digits[(n % 10) + 1])

FmtT(v) == IF v < 0 THEN <<"-">> \o FmtNat(-v) ELSE FmtNat(v)

\* ------------------------------------------------------------ Matrix<T>
WellFormed(m) == Len(m.data) = m.row * m.col

\* Matrix::new
new(row, col, values) == Matrix(values, row, col)

\* Matrix::is_square
is_square(m) == m.row = m.col

\* self.data[off] with the Vec bounds check
At(m, off) == IF off >= 0 /\ off < Len(m.data) THEN Ok(m.data[off + 1]) ELSE Panic

\* Matrix::transposition: the pushes for i in from_i..col, j in from_j..row
RECURSIVE TransposeLoop(_, _, _, _)
TransposeLoop(m, i, j, data) ==
    IF i >= m.col THEN Ok(Matrix(data, m.col, m.row))
    ELSE IF j >= m.row THEN TransposeLoop(m, i + 1, 0, data)
    ELSE LET e == At(m, j * m.col + i)
         IN IF ~IsOk(e) THEN Panic
            ELSE TransposeLoop(m, i, j + 1, Append(data, e.val))

\* transposition that swaps the shape and leaves data in the source order
transposition_keeps_order(m) == Ok(Matrix(m.data, m.col, m.row))

transposition(m) == TransposeLoop(m, 0, 0, <<>>)

\* Matrix::is_identity: the scan from (i, j) with running offset idx
RECURSIVE IdentityLoop(_, _, _, _)
IdentityLoop(m, i, j, idx) ==
    IF i >= m.row THEN Ok(TRUE)
    ELSE IF j >= m.col THEN IdentityLoop(m, i + 1, 0, idx)
    ELSE LET e == At(m, idx)
         IN IF ~IsOk(e) THEN Panic
            ELSE IF (i = j /\ e.val # 1) \/ (i # j /\ e.val # 0) THEN Ok(FALSE)
            ELSE IdentityLoop(m, i, j + 1, idx + 1)

\* is_identity without the square check
is_identity_any_shape(m) == IdentityLoop(m, 0, 0, 0)

is_identity(m) == IF ~is_square(m) THEN Ok(FALSE) ELSE IdentityLoop(m, 0, 0, 0)

\* impl Display for Matrix: the writes for elements i.. of data
RECURSIVE FmtLoop(_, _, _)
FmtLoop(m, i, out) ==
    IF i >= Len(m.data) THEN Ok(Append(out, "]"))
    ELSE IF m.col = 0 THEN Panic
    ELSE LET k == (IF (i + 1) % m.col = 0 THEN 1 ELSE 0)
                  + (IF i = Len(m.data) - 1 THEN 1 ELSE 0)
             sep == <<<<",">>, <<";">>, <<>>>>[k + 1]
         IN FmtLoop(m, i + 1, out \o FmtT(m.data[i + 1]) \o sep)

fmt(m) == FmtLoop(m, 0, <<"[">>)

\* from_str, inner loop: the elements of one row, from the k-th on
RECURSIVE ParseElements(_, _, _)
ParseElements(row_elements, k, data) ==
    IF k > Len(row_elements) THEN Ok(data)
    ELSE LET e == ParseT(Trim(row_elements[k]))
         IN IF IsOk(e) THEN ParseElements(row_elements, k + 1, Append(data, e.val))
            ELSE Err("ParseNumberError")

\* from_str that parses the elements of a row before it checks the row's count
RECURSIVE ParseRows_elements_first(_, _, _, _, _)
ParseRows_elements_first(rows, idx, num_row, num_col, data) ==
    IF idx >= Len(rows) THEN Ok(Matrix(data, num_row, num_col))
    ELSE LET row_elements == Split(rows[idx + 1], ",")
             nc == IF idx = 0 THEN Len(row_elements) ELSE num_col
             d == ParseElements(row_elements, 1, data)
         IN IF ~IsOk(d) THEN d
            ELSE IF idx # 0 /\ num_col # Len(row_elements) THEN Err("ColumnsNotAligned")
            ELSE ParseRows_elements_first(rows, idx + 1, num_row + 1, nc, d.val)

\* from_str, outer loop: the rows from the idx-th on (idx counts from 0)
RECURSIVE ParseRows(_, _, _, _, _)
ParseRows(rows, idx, num_row, num_col, data) ==
    IF idx >= Len(rows) THEN Ok(Matrix(data, num_row, num_col))
    ELSE LET row_elements == Split(rows[idx + 1], ",")
             nc == IF idx = 0 THEN Len(row_elements) ELSE num_col
         IN IF idx # 0 /\ num_col # Len(row_elements) THEN Err("ColumnsNotAligned")
            ELSE LET d == ParseElements(row_elements, 1, data)
                 IN IF IsOk(d) THEN ParseRows(rows, idx + 1, num_row + 1, nc, d.val)
                    ELSE d

\* impl FromStr for Matrix
from_str(input) ==
    LET s == Trim(input)
        n == ByteLen(s)
    IN IF n < 2 THEN Err("WrongBracketFormat")
       ELSE IF ~IsCharBoundary(s, 1) THEN Panic
       ELSE IF Slice(s, 0, 1) # <<"[">> THEN Err("WrongBracketFormat")
       ELSE IF ~IsCharBoundary(s, n - 1) THEN Panic
       ELSE IF Slice(s, n - 1, n) # <<"]">> THEN Err("WrongBracketFormat")
       ELSE ParseRows(Split(Slice(s, 1, n - 1), ";"), 0, 0, 0, <<>>)

\* impl Index for Matrix
index(m, i, j) == At(m, i * m.col + j)

\* IndexMut that strides by the row count
index_mut_row_stride(m, i, j, v) ==
    LET off == i * m.row + j
    IN IF off < Len(m.data)
       THEN Ok(Matrix([m.data EXCEPT ![off + 1] = v], m.row, m.col))
       ELSE Panic

\* impl IndexMut for Matrix, followed by the store of v
index_mut(m, i, j, v) ==
    LET off == i * m.col + j
    IN IF off < Len(m.data)
       THEN Ok(Matrix([m.data EXCEPT ![off + 1] = v], m.row, m.col))
       ELSE Panic

\* ------------------------------------------------------------ arithmetic
Min(a, b) == IF a < b THEN a ELSE b

\* .collect() of a sequence of element outcomes: a panic if any panicked
Collect(rs) == IF \E k \in DOMAIN rs : ~IsOk(rs[k]) THEN Panic
               ELSE Ok([k \in DOMAIN rs |-> rs[k].val])

\* self.data.iter().zip(rhs.data.iter()): the paired positions
ZipLen(a, b) == Min(Len(a.data), Len(b.data))

\* impl Add for &Matrix
add(a, b) ==
    IF a.row # b.row \/ a.col # b.col THEN Panic
    ELSE LET d == Collect([k \in 1..ZipLen(a, b) |-> Arith(a.data[k] + b.data[k])])
         IN IF IsOk(d) THEN Ok(Matrix(d.val, a.row, a.col)) ELSE Panic

\* impl Add<&T> for &Matrix
add_scalar(a, t) ==
    LET d == Collect([k \in 1..Len(a.data) |-> Arith(a.data[k] + t)])
    IN IF IsOk(d) THEN Ok(Matrix(d.val, a.row, a.col)) ELSE Panic

\* impl Sub for &Matrix
sub(a, b) ==
    IF a.row # b.row \/ a.col # b.col THEN Panic
    ELSE LET d == Collect([k \in 1..ZipLen(a, b) |-> Arith(a.data[k] - b.data[k])])
         IN IF IsOk(d) THEN Ok(Matrix(d.val, a.row, a.col)) ELSE Panic

\* impl Sub<&T> for &Matrix
sub_scalar(a, t) ==
    LET d == Collect([k \in 1..Len(a.data) |-> Arith(a.data[k] - t)])
    IN IF IsOk(d) THEN Ok(Matrix(d.val, a.row, a.col)) ELSE Panic

\* impl Neg for &Matrix
neg(a) ==
    LET d == Collect([k \in 1..Len(a.data) |-> Arith(-a.data[k])])
    IN IF IsOk(d) THEN Ok(Matrix(d.val, a.row, a.col)) ELSE Panic

\* impl Mul for &Matrix, innermost loop: k.. with data[i * rhs.col + j] = acc
RECURSIVE MulAcc(_, _, _, _, _, _)
MulAcc(a, b, i, j, k, acc) ==
    IF k >= a.col THEN Ok(acc)
    ELSE LET l == At(a, i * a.col + k)
             r == At(b, k * b.col + j)
         IN IF ~IsOk(l) \/ ~IsOk(r) THEN Panic
            ELSE LET p == Arith(l.val * r.val)
                 IN IF ~IsOk(p) THEN Panic
                    ELSE LET t == Arith(acc + p.val)
                         IN IF ~IsOk(t) THEN Panic
                            ELSE MulAcc(a, b, i, j, k + 1, t.val)

\* Mul whose seed product reads column 0 of rhs for every j
MulElem_seed_column0(a, b, i, j) ==
    LET l == At(a, i * a.col)
        r == At(b, 0)
    IN IF ~IsOk(l) \/ ~IsOk(r) THEN Panic
       ELSE LET p == Arith(l.val * r.val)
            IN IF ~IsOk(p) THEN Panic ELSE MulAcc(a, b, i, j, 1, p.val)

\* impl Mul for &Matrix, the push of the seed product and its accumulation
MulElem(a, b, i, j) ==
    LET l == At(a, i * a.col)
        r == At(b, j)
    IN IF ~IsOk(l) \/ ~IsOk(r) THEN Panic
       ELSE LET p == Arith(l.val * r.val)
            IN IF ~IsOk(p) THEN Panic ELSE MulAcc(a, b, i, j, 1, p.val)

\* impl Mul for &Matrix, the loops over i and j
RECURSIVE MulLoop(_, _, _, _, _)
MulLoop(a, b, i, j, data) ==
    IF i >= a.row THEN Ok(Matrix(data, a.row, b.col))
    ELSE IF j >= b.col THEN MulLoop(a, b, i + 1, 0, data)
    ELSE LET e == MulElem(a, b, i, j)
         IN IF ~IsOk(e) THEN Panic ELSE MulLoop(a, b, i, j + 1, Append(data, e.val))

mul(a, b) == IF a.col # b.row THEN Panic ELSE MulLoop(a, b, 0, 0, <<>>)

\* impl Mul<&T> for &Matrix
mul_scalar(a, t) ==
    LET d == Collect([k \in 1..Len(a.data) |-> Arith(a.data[k] * t)])
    IN IF IsOk(d) THEN Ok(Matrix(d.val, a.row, a.col)) ELSE Panic

Abs(n) == IF n < 0 THEN -n ELSE n
RECURSIVE Gcd(_, _)
Gcd(a, b) == IF b = 0 THEN a ELSE Gcd(b, a % b)

\* (a as f64) / (b as f64): the quotient in lowest terms with den > 0;
\* den = 0 stands for the IEEE results inf (num 1), -inf (num -1), NaN (num 0)
F64Div(a, b) ==
    IF b = 0 THEN [num |-> (IF a > 0 THEN 1 ELSE IF a < 0 THEN -1 ELSE 0), den |-> 0]
    ELSE LET g == Gcd(Abs(a), Abs(b))
             sg == IF b < 0 THEN -1 ELSE 1
         IN [num |-> sg * (a \div g), den |-> Abs(b) \div g]

\* impl Div for &Matrix
div(a, b) ==
    IF a.row # b.row \/ a.col # b.col THEN Panic
    ELSE Ok(Matrix([k \in 1..ZipLen(a, b) |-> F64Div(a.data[k], b.data[k])], a.row, a.col))

\* impl Div<&T> for &Matrix
div_scalar(a, t) ==
    Ok(Matrix([k \in 1..Len(a.data) |-> F64Div(a.data[k], t)], a.row, a.col))

\* ------------------------------------------------------------- the inputs
\* sequences over S of length at most n
SeqsUpTo(S, n) == UNION {[1..k -> S] : k \in 0..n}

\* how far values.len() may be from row * col in a call of Matrix::new
Slack == 1

\* the (row, col, values) triples handed to Matrix::new
NewArgs == {<<r, c, v>> \in (0..MaxDim) \X (0..MaxDim) \X SeqsUpTo(Vals, MaxLen) :
              /\ Len(v) >= r * c - Slack
              /\ Len(v) <= r * c + Slack}

\* the matrices a caller passes as right operand: built by Matrix::new from
\* as many values as the shape holds
Operands == {new(a[1], a[2], a[3]) : a \in {b \in NewArgs : Len(b[3]) = b[1] * b[2]}}

\* the characters of the strings handed to from_str
Alphabet == {"[", "]", ",", ";", " ", "1", NonAscii}
Inputs == SeqsUpTo(Alphabet, MaxStrLen)

\* ---------------------------------------------------------------- actions
\* what the last call was, on which matrix, with which argument, and its outcome
Call(op, self, rhs, out) == [op |-> op, self |-> self, rhs |-> rhs, out |-> out]

\* nothing has been called yet
Fresh == last.op = "none"

\* x holds a matrix and the last call built or changed it.  A call that only
\* reads x leaves x as it was, so whatever may follow it already follows the
\* state before it; the calls after a read are not explored a second time.
Live == x # NoMatrix /\ last.op \in {"new", "from_str", "transposition", "index_mut"}

\* x holds a matrix as Matrix::new or from_str built it.  The operators that
\* take a second matrix are explored on these matrices.
Built == x # NoMatrix /\ last.op \in {"new", "from_str"}

New(row, col, values) ==
    /\ Fresh
    /\ x' = new(row, col, values)
    /\ last' = Call("new", NoMatrix, <<row, col, values>>, Ok(x'))
    /\ UNCHANGED overflow_checks

FromStr(s) ==
    /\ Fresh
    /\ LET r == from_str(s)
       IN /\ last' = Call("from_str", NoMatrix, s, r)
          /\ x' = IF IsOk(r) THEN r.val ELSE x
    /\ UNCHANGED overflow_checks

Transposition ==
    /\ Live
    /\ LET r == transposition(x)
       IN /\ last' = Call("transposition", x, <<>>, r)
          /\ x' = IF IsOk(r) THEN r.val ELSE x
    /\ UNCHANGED overflow_checks

IsIdentity ==
    /\ Live
    /\ last' = Call("is_identity", x, <<>>, is_identity(x))
    /\ UNCHANGED <<overflow_checks, x>>

Fmt ==
    /\ Live
    /\ last' = Call("fmt", x, <<>>, fmt(x))
    /\ UNCHANGED <<overflow_checks, x>>

\* format!("{}", x).parse::<Matrix<i8>>(): the string just formatted is parsed
Reparse ==
    /\ last.op = "fmt" /\ IsOk(last.out)
    /\ last' = Call("reparse", x, last.out.val, from_str(last.out.val))
    /\ UNCHANGED <<overflow_checks, x>>

Index(i, j) ==
    /\ Live
    /\ last' = Call("index", x, <<i, j>>, index(x, i, j))
    /\ UNCHANGED <<overflow_checks, x>>

IndexMut(i, j, v) ==
    /\ Live
    /\ LET r == index_mut(x, i, j, v)
       IN /\ last' = Call("index_mut", NoMatrix, <<>>, IF IsOk(r) THEN Ok(v) ELSE Panic)
          /\ x' = IF IsOk(r) THEN r.val ELSE x
    /\ UNCHANGED overflow_checks

Add(rhs) ==
    /\ Built
    /\ last' = Call("add", x, rhs, add(x, rhs))
    /\ UNCHANGED <<overflow_checks, x>>

\* &x + &y - &y: the sum, then the subtraction of the same right operand
add_sub(a, b) == LET t == add(a, b) IN IF IsOk(t) THEN sub(t.val, b) ELSE Panic

AddSub(rhs) ==
    /\ Built
    /\ last' = Call("add_sub", x, rhs, add_sub(x, rhs))
    /\ UNCHANGED <<overflow_checks, x>>

AddScalar(t) ==
    /\ Live
    /\ last' = Call("add_scalar", x, t, add_scalar(x, t))
    /\ UNCHANGED <<overflow_checks, x>>

Sub(rhs) ==
    /\ Built
    /\ last' = Call("sub", x, rhs, sub(x, rhs))
    /\ UNCHANGED <<overflow_checks, x>>

SubScalar(t) ==
    /\ Live
    /\ last' = Call("sub_scalar", x, t, sub_scalar(x, t))
    /\ UNCHANGED <<overflow_checks, x>>

Neg ==
    /\ Live
    /\ last' = Call("neg", x, <<>>, neg(x))
    /\ UNCHANGED <<overflow_checks, x>>

Mul(rhs) ==
    /\ Built
    /\ last' = Call("mul", x, rhs, mul(x, rhs))
    /\ UNCHANGED <<overflow_checks, x>>

MulScalar(t) ==
    /\ Live
    /\ last' = Call("mul_scalar", x, t, mul_scalar(x, t))
    /\ UNCHANGED <<overflow_checks, x>>

Div(rhs) ==
    /\ Built
    /\ last' = Call("div", x, rhs, div(x, rhs))
    /\ UNCHANGED <<overflow_checks, x>>

DivScalar(t) ==
    /\ Live
    /\ last' = Call("div_scalar", x, t, div_scalar(x, t))
    /\ UNCHANGED <<overflow_checks, x>>

Init == /\ overflow_checks \in BOOLEAN
        /\ x = NoMatrix
        /\ last = Call("none", NoMatrix, <<>>, Panic)

\* Fresh, Live and Built are repeated in front of the quantifiers so that a state in
\* which a call is disabled does not enumerate that call's arguments
Next ==
    \/ Fresh /\ \E a \in NewArgs : New(a[1], a[2], a[3])
    \/ Fresh /\ \E s \in Inputs : FromStr(s)
    \/ Transposition
    \/ IsIdentity
    \/ Fmt
    \/ Reparse
    \/ Live /\ \E i, j \in 0..MaxIdx : Index(i, j)
    \/ Live /\ \E i, j \in 0..MaxIdx, v \in Vals : IndexMut(i, j, v)
    \/ Built /\ \E rhs \in Operands : Add(rhs)
    \/ Built /\ \E rhs \in Operands : AddSub(rhs)
    \/ Live /\ \E t \in Vals : AddScalar(t)
    \/ Built /\ \E rhs \in Operands : Sub(rhs)
    \/ Live /\ \E t \in Vals : SubScalar(t)
    \/ Neg
    \/ Built /\ \E rhs \in Operands : Mul(rhs)
    \/ Live /\ \E t \in Vals : MulScalar(t)
    \/ Built /\ \E rhs \in Operands : Div(rhs)
    \/ Live /\ \E t \in Vals : DivScalar(t)

Spec == Init /\ [][Next]_vars

\* ----------------------------------------------------------------- claims
SameShape(a, b) == a.row = b.row /\ a.col = b.col

\* C1: for every matrix m with data.length = row * col, shapes with zero rows
\* or zero columns included, parsing the Display output of m succeeds and
\* yields a matrix equal to m.
C1_RoundTrip ==
    (last.op = "reparse" /\ WellFormed(last.self))
        => (IsOk(last.out) /\ last.out.val = last.self)

\* C2: add, sub and div abort exactly when the shapes differ; mul aborts
\* exactly when self.col # rhs.row and otherwise returns a matrix of shape
\* (self.row, rhs.col).
C2_AbortIffShapeMismatch ==
    /\ last.op \in {"add", "sub", "div"}
        => (~IsOk(last.out) <=> ~SameShape(last.self, last.rhs))
    /\ last.op = "mul"
        => /\ ~IsOk(last.out) <=> last.self.col # last.rhs.row
           /\ last.self.col = last.rhs.row
                => /\ IsOk(last.out)
                   /\ last.out.val.row = last.self.row
                   /\ last.out.val.col = last.rhs.col

\* the dot product of row i of a and column j of b over the indices 0..k of
\* the shared dimension: the product at index 0 as the seed, then the products
\* at 1..k added in increasing order, in the arithmetic of T
RECURSIVE DotUpTo(_, _, _, _, _)
DotUpTo(a, b, i, j, k) ==
    LET p == Wrap(a.data[i * a.col + k + 1] * b.data[k * b.col + j + 1])
    IN IF k = 0 THEN p ELSE Wrap(DotUpTo(a, b, i, j, k - 1) + p)

\* C3: whenever A * B returns, it has r * c elements and the element at offset
\* i * c + j is the ordered dot product of row i of A and column j of B.
C3_MulIsMatrixProduct ==
    (last.op = "mul" /\ IsOk(last.out))
        => LET a == last.self
               b == last.rhs
               d == last.out.val.data
           IN /\ Len(d) = a.row * b.col
              /\ \A i \in 0..(a.row - 1), j \in 0..(b.col - 1) :
                    d[i * b.col + j + 1] = DotUpTo(a, b, i, j, a.col - 1)

C3_Witness ==
    /\ last.op = "mul" /\ IsOk(last.out)
    /\ last.self.row = 2 /\ last.self.col = 2 /\ last.rhs.col = 2
    /\ last.out.val.data[2] # last.out.val.data[3]

\* the input starts with '[' and ends with ']' and has at least 2 characters
Bracketed(t) == Len(t) >= 2 /\ t[1] = "[" /\ t[Len(t)] = "]"

\* C4: parsing returns a value for every input and never aborts, and the value
\* is WrongBracketFormat exactly when the trimmed input is shorter than 2
\* characters or does not both start with '[' and end with ']'.
C4_ParseIsTotal ==
    last.op = "from_str"
        => /\ last.out.tag # "Panic"
           /\ (last.out.tag = "Err" /\ last.out.err = "WrongBracketFormat")
                <=> ~Bracketed(Trim(last.rhs))

\* the calls that return a matrix
MatrixOps == {"new", "from_str", "reparse", "transposition", "add", "add_sub",
              "add_scalar", "sub", "sub_scalar", "neg", "mul", "mul_scalar",
              "div", "div_scalar"}

\* C5: every matrix reachable through the public operations has
\* data.length = row * col, and element assignment never changes row or col.
C5_LengthInvariant ==
    [][/\ x' # NoMatrix => WellFormed(x')
       /\ (last'.op \in MatrixOps /\ IsOk(last'.out)) => WellFormed(last'.out.val)
       /\ (last'.op = "index_mut" /\ \E i, j \in 0..MaxIdx, v \in Vals : IndexMut(i, j, v))
            => (x'.row = x.row /\ x'.col = x.col)]_vars

\* square, 1 at every diagonal position and 0 at every other position
IsIdentityMatrix(m) ==
    /\ m.row = m.col
    /\ \A i \in 0..(m.row - 1), j \in 0..(m.col - 1) :
          m.data[i * m.col + j + 1] = (IF i = j THEN 1 ELSE 0)

\* C6: for a matrix that holds its row * col elements, is_identity returns
\* true exactly when the matrix is square with 1 on the diagonal and 0
\* elsewhere, and false for every other matrix.
C6_IsIdentity ==
    (last.op = "is_identity" /\ Len(last.self.data) >= last.self.row * last.self.col)
        => (IsOk(last.out) /\ last.out.val = IsIdentityMatrix(last.self))

C6_Witness ==
    /\ last.op = "is_identity" /\ last.self.row = 2 /\ WellFormed(last.self)
    /\ IsOk(last.out) /\ last.out.val = TRUE

\* C7: for a matrix m with data.length = row * col, transposition(m) has shape
\* (m.col, m.row), its element (i, j) is m's element (j, i), and transposing
\* it again gives m.
C7_TransposeInvolution ==
    (last.op = "transposition" /\ WellFormed(last.self))
        => LET m == last.self
           IN /\ IsOk(last.out)
              /\ last.out.val.row = m.col
              /\ last.out.val.col = m.row
              /\ Len(last.out.val.data) = m.row * m.col
              /\ \A i \in 0..(m.col - 1), j \in 0..(m.row - 1) :
                    last.out.val.data[i * m.row + j + 1] = m.data[j * m.col + i + 1]
              /\ transposition(last.out.val) = Ok(m)

C7_Witness ==
    /\ last.op = "transposition" /\ WellFormed(last.self) /\ IsOk(last.out)
    /\ last.self.row = 1 /\ last.self.col = 2
    /\ last.self.data[1] # last.self.data[2]

\* C8: for matrices a and b of equal shape over a fixed-width integer type,
\* (a + b) - b completes and equals a, also when a sum leaves the range of T.
C8_AddThenSub ==
    (/\ last.op = "add_sub"
     /\ WellFormed(last.self) /\ WellFormed(last.rhs)
     /\ SameShape(last.self, last.rhs))
        => (IsOk(last.out) /\ last.out.val = last.self)

\* the rows and tokens of a bracketed input
RowsOf(t) == Split(SubSeq(t, 2, Len(t) - 1), ";")
TokensOf(t, r) == Split(RowsOf(t)[r], ",")
BadCount(t, r) == Len(TokensOf(t, r)) # Len(TokensOf(t, 1))
BadToken(t, r) == \E k \in 1..Len(TokensOf(t, r)) : ~IsOk(ParseT(Trim(TokensOf(t, r)[k])))
Offending(t) == {r \in 1..Len(RowsOf(t)) : BadCount(t, r) \/ BadToken(t, r)}

\* C9: for a bracketed input the first row with a wrong element count or an
\* unparsable token decides: ColumnsNotAligned if its count differs from row
\* 0's, ParseNumberError otherwise; with no such row parsing succeeds with
\* row = number of ';'-groups and col = element count of row 0.
C9_FirstOffendingRowDecides ==
    (last.op = "from_str" /\ Bracketed(Trim(last.rhs)))
        => LET t == Trim(last.rhs)
               off == Offending(t)
           IN IF off = {}
              THEN /\ IsOk(last.out)
                   /\ last.out.val.row = Len(RowsOf(t))
                   /\ last.out.val.col = Len(TokensOf(t, 1))
              ELSE LET f == CHOOSE r \in off : \A q \in off : r <= q
                   IN /\ last.out.tag = "Err"
                      /\ last.out.err = (IF BadCount(t, f) THEN "ColumnsNotAligned"
                                         ELSE "ParseNumberError")

\* a row with a wrong count that also holds an unparsable token
C9_Witness ==
    /\ last.op = "from_str" /\ Bracketed(Trim(last.rhs))
    /\ \E r \in Offending(Trim(last.rhs)) :
          BadCount(Trim(last.rhs), r) /\ BadToken(Trim(last.rhs), r)
    /\ last.out.tag = "Err" /\ last.out.err = "ColumnsNotAligned"

\* C10: a read or write at (i, j) addresses the offset i * col + j and aborts
\* exactly when that offset is not below data.length; a write changes that one
\* element only and a read after it returns the value written; an index with
\* j >= col and an offset in range addresses (i + j div col, j mod col).
C10_IndexAddressesOffset ==
    [][/\ last'.op = "index"
            => LET m == last'.self
                   i == last'.rhs[1]
                   j == last'.rhs[2]
                   off == i * m.col + j
               IN /\ ~IsOk(last'.out) <=> off >= Len(m.data)
                  /\ off < Len(m.data) => last'.out.val = m.data[off + 1]
                  /\ (off < Len(m.data) /\ m.col > 0 /\ j >= m.col)
                        => last'.out = index(m, i + (j \div m.col), j % m.col)
       /\ \A i, j \in 0..MaxIdx, v \in Vals :
            (last'.op = "index_mut" /\ IndexMut(i, j, v))
                => LET off == i * x.col + j
                   IN /\ ~IsOk(last'.out) <=> off >= Len(x.data)
                      /\ off >= Len(x.data) => x' = x
                      /\ off < Len(x.data)
                            => /\ x'.row = x.row /\ x'.col = x.col
                               /\ Len(x'.data) = Len(x.data)
                               /\ x'.data[off + 1] = v
                               /\ \A k \in 1..Len(x.data) :
                                     k # off + 1 => x'.data[k] = x.data[k]
                               /\ index(x', i, j) = Ok(v)]_vars

\* a write that succeeded on a 2 x 2 matrix holding two different elements
C10_Witness ==
    /\ last.op = "index_mut" /\ IsOk(last.out)
    /\ x.row = 2 /\ x.col = 2 /\ WellFormed(x)
    /\ x.data[3] # x.data[1]
====
